---- MODULE Spec2Model ----
(***************************************************************************)
(* A model of src/data_ingestion/data_ingestion.py: the command line entry *)
(* main() and the operation download_data(output_path, test_size,          *)
(* random_state), run one after the other against one file system: Spec   *)
(* tries every input in each of a few runs, SpecRepeated repeats a few     *)
(* inputs any number of times.                                             *)
(*                                                                         *)
(* Representation.                                                         *)
(*  - test_size is a float in the code.  The model writes it as an integer *)
(*    number of thousandths (200 is 0.2).  The dataset has 569 rows, a     *)
(*    prime, so test_size * 569 is never an integer for a number of        *)
(*    thousandths strictly between 0 and 1000 and lies at least 0.001 away *)
(*    from one: the float product and the exact product have the same      *)
(*    ceiling.                                                             *)
(*  - A feature row of the dataset is written as its row index 0..568      *)
(*    (the 30 floats of a row are never inspected by the code), a label as *)
(*    0 or 1.                                                              *)
(*  - A 32-bit word of numpy's Mersenne Twister is written as the pair     *)
(*    <<high 16 bits, low 16 bits>>.                                       *)
(*  - random_state is a Python int, which has no width: n is written as   *)
(*    <<n \div 2^16, n % 2^16>>, so that 2^32 and beyond can be told from  *)
(*    the seeds RandomState takes.                                         *)
(*  - A file's content is the sequence of the JSON members written to it   *)
(*    so far, each a pair <<key, value>>; json.dump hands the document to  *)
(*    the file piece by piece, one member of the object after the other.   *)
(***************************************************************************)
EXTENDS Integers, Sequences, FiniteSets, TLC

\* Number of runs the model follows when every input is tried in each.
MaxRuns == 2

\* load_breast_cancer: the dataset has 569 rows.
NSamples == 569

\* test_size values tried, in thousandths: negative, 0, 0.2 (the default),
\* 0.25, 0.999, 1 and 1.5.
TestSizes == {-500, 0, 200, 250, 999, 1000, 1500}
Thousand == 1000

\* A Python int n, which has no width, written as <<n \div 2^16, n % 2^16>>:
\* the second part is in 0..65535 and the first is any integer.
PyInt(n) == <<n \div 65536, n % 65536>>

\* random_state values tried: -1, 42 (the default), 43 and 2^32.
RandomStates == {PyInt(-1), PyInt(42), PyInt(43), <<65536, 0>>}

\* <<test_size, random_state>> of the runs that are repeated without limit:
\* the defaults, another fraction with another seed, and a fraction the
\* split rejects.
RepeatedArgs ==
    {<<200, PyInt(42)>>, <<250, PyInt(43)>>, <<1500, PyInt(42)>>}

\* Output paths tried: one in the working directory, which exists, and one
\* in a directory that does not exist when the program first runs.
Paths == {"data.json", "out/data.json"}

\* Path(p).parent
Parent(p) == IF p = "data.json" THEN "." ELSE "out"

\* The order in which json.dump writes the members of the dict `data`.
DumpOrder == <<"X_train", "y_train", "X_test", "y_test">>

-----------------------------------------------------------------------------
(* The state.                                                              *)

VARIABLES
    pc,            \* where the current run is
    entry,         \* "main" or "direct": how download_data was reached
    output_path,   \* arguments of the current run
    test_size,
    random_state,
    X, y,          \* locals of download_data
    split,
    data,
    output_file,   \* the handle: "none", "open" or "closed"
    opens,         \* calls of open() in the current run
    error,         \* the exception the current run ended with
    dirs,          \* the directories that exist
    files,         \* path -> content, or Absent
    reported,      \* main has printed its success message for this run
    runs,          \* runs started so far, where they are counted
    newest,        \* the path of the file modified last (None before the
                   \* first is opened): the order of modification times
    written_by,    \* path -> <<test_size, random_state>> of the run that
                   \* last opened it
    dirs0, files0, \* the file system, and written_by, as the current run
    written_by0,   \* found them
    newest0

vars == <<pc, entry, output_path, test_size, random_state, X, y, split, data,
          output_file, opens, error, dirs, files, reported, runs, newest,
          written_by, dirs0, files0, written_by0, newest0>>

Absent == "absent"
None == "none"
NoArgs == <<>>

locals == <<X, y, split, data>>
args == <<entry, output_path, test_size, random_state>>
history == <<dirs0, files0, written_by0, newest0>>

-----------------------------------------------------------------------------
(* The dataset.                                                            *)

\* X as load_breast_cancer returns it: row i is written as i.
LoadX == [i \in 1..NSamples |-> i - 1]

\* The target vector of the dataset as published (0 malignant, 1 benign;
\* 212 zeros and 357 ones), row 0 first.
Target ==
    <<
      0, 0, 0, 0, 0, 0, 0, 0, 0, 0, 0, 0, 0, 0, 0, 0, 0, 0, 0, 1, 1, 1,
      0, 0, 0, 0, 0, 0, 0, 0, 0, 0, 0, 0, 0, 0, 0, 1, 0, 0, 0, 0, 0, 0,
      0, 0, 1, 0, 1, 1, 1, 1, 1, 0, 0, 1, 0, 0, 1, 1, 1, 1, 0, 1, 0, 0,
      1, 1, 1, 1, 0, 1, 0, 0, 1, 0, 1, 0, 0, 1, 1, 1, 0, 0, 1, 0, 0, 0,
      1, 1, 1, 0, 1, 1, 0, 0, 1, 1, 1, 0, 0, 1, 1, 1, 1, 0, 1, 1, 0, 1,
      1, 1, 1, 1, 1, 1, 1, 0, 0, 0, 1, 0, 0, 1, 1, 1, 0, 0, 1, 0, 1, 0,
      0, 1, 0, 0, 1, 1, 0, 1, 1, 0, 1, 1, 1, 1, 0, 1, 1, 1, 1, 1, 1, 1,
      1, 1, 0, 1, 1, 1, 1, 0, 0, 1, 0, 1, 1, 0, 0, 1, 1, 0, 0, 1, 1, 1,
      1, 0, 1, 1, 0, 0, 0, 1, 0, 1, 0, 1, 1, 1, 0, 1, 1, 0, 0, 1, 0, 0,
      0, 0, 1, 0, 0, 0, 1, 0, 1, 0, 1, 1, 0, 1, 0, 0, 0, 0, 1, 1, 0, 0,
      1, 1, 1, 0, 1, 1, 1, 1, 1, 0, 0, 1, 1, 0, 1, 1, 0, 0, 1, 0, 1, 1,
      1, 1, 0, 1, 1, 1, 1, 1, 0, 1, 0, 0, 0, 0, 0, 0, 0, 0, 0, 0, 0, 0,
      0, 0, 1, 1, 1, 1, 1, 1, 0, 1, 0, 1, 1, 0, 1, 1, 0, 1, 0, 0, 1, 1,
      1, 1, 1, 1, 1, 1, 1, 1, 1, 1, 1, 0, 1, 1, 0, 1, 0, 1, 1, 1, 1, 1,
      1, 1, 1, 1, 1, 1, 1, 1, 1, 0, 1, 1, 1, 0, 1, 0, 1, 1, 1, 1, 0, 0,
      0, 1, 1, 1, 1, 0, 1, 0, 1, 0, 1, 1, 1, 0, 1, 1, 1, 1, 1, 1, 1, 0,
      0, 0, 1, 1, 1, 1, 1, 1, 1, 1, 1, 1, 1, 0, 0, 1, 0, 0, 0, 1, 0, 0,
      1, 1, 1, 1, 1, 0, 1, 1, 1, 1, 1, 0, 1, 1, 1, 0, 1, 1, 0, 0, 1, 1,
      1, 1, 1, 1, 0, 1, 1, 1, 1, 1, 1, 1, 0, 1, 1, 1, 1, 1, 0, 1, 1, 0,
      1, 1, 1, 1, 1, 1, 1, 1, 1, 1, 1, 1, 0, 1, 0, 0, 1, 0, 1, 1, 1, 1,
      1, 0, 1, 1, 0, 1, 0, 1, 1, 0, 1, 0, 1, 1, 1, 1, 1, 1, 1, 1, 0, 0,
      1, 1, 1, 1, 1, 1, 0, 1, 1, 1, 1, 1, 1, 1, 1, 1, 1, 0, 1, 1, 1, 1,
      1, 1, 1, 0, 1, 0, 1, 1, 0, 1, 1, 1, 1, 1, 0, 0, 1, 0, 1, 0, 1, 1,
      1, 1, 1, 0, 1, 1, 0, 1, 0, 1, 0, 0, 1, 1, 1, 0, 1, 1, 1, 1, 1, 1,
      1, 1, 1, 1, 1, 0, 1, 0, 0, 1, 1, 1, 1, 1, 1, 1, 1, 1, 1, 1, 1, 1,
      1, 1, 1, 1, 1, 1, 1, 1, 1, 1, 1, 1, 0, 0, 0, 0, 0, 0, 1
    >>

\* The label of row i (0-based).
Label(i) == Target[i + 1]

\* y as load_breast_cancer returns it.
LoadY == [i \in 1..NSamples |-> Label(i - 1)]

-----------------------------------------------------------------------------
(* sklearn.model_selection.train_test_split, as called on line 13 with a   *)
(* float test_size, train_size=None, shuffle=True, stratify=None.          *)

\* math.ceil(a / b) for a >= 0, b > 0.
Ceil(a, b) == (a + b - 1) \div b

\* Faulty variant: the range check lets test_size = 0 through.
TestSizeInRangeZero(ts) == ts >= 0 /\ ts < Thousand

\* _validate_shuffle_split: a float test_size must lie strictly between 0
\* and 1.
TestSizeInRange(ts) == ts > 0 /\ ts < Thousand

\* Faulty variant: n_test truncated instead of rounded up.
NTestFloor(ts, n) == (ts * n) \div Thousand

\* _validate_shuffle_split: n_test = ceil(test_size * n_samples).
NTest(ts, n) == Ceil(ts * n, Thousand)

\* _validate_shuffle_split: n_train = n_samples - n_test (train_size=None).
NTrain(ts, n) == n - NTest(ts, n)

\* check_random_state -> RandomState(seed): the seed must be in 0..2^32-1,
\* that is, not negative and with nothing above its low 32 bits.
SeedInRange(rs) == rs[1] >= 0 /\ rs[1] <= 65535

\* Faulty variant: no check that the training set is non-empty.
SplitAcceptsEmptyTrain(ts, rs, n) ==
    /\ ts > 0 /\ ts < Thousand
    /\ rs[1] >= 0 /\ rs[1] <= 65535

\* The conditions under which train_test_split returns instead of raising
\* ValueError: test_size in range, a non-empty training set, a legal seed.
SplitAccepts(ts, rs, n) ==
    /\ TestSizeInRange(ts)
    /\ NTrain(ts, n) # 0
    /\ SeedInRange(rs)

(* numpy's RandomState: the MT19937 generator (mt19937_seed, mt19937_gen,  *)
(* the tempering of mt19937_next) and the legacy shuffle.                  *)

\* Bitwise exclusive or, and bitwise and, of two numbers in 0..65535.
RECURSIVE Xor16(_, _)
Xor16(a, b) ==
    IF a = 0 THEN b
    ELSE IF b = 0 THEN a
    ELSE 2 * Xor16(a \div 2, b \div 2) + ((a + b) % 2)

RECURSIVE And16(_, _)
And16(a, b) ==
    IF a = 0 \/ b = 0 THEN 0
    ELSE 2 * And16(a \div 2, b \div 2) + ((a % 2) * (b % 2))

\* v ^ w and v & w on words.
XorW(v, w) == <<Xor16(v[1], w[1]), Xor16(v[2], w[2])>>
AndW(v, w) == <<And16(v[1], w[1]), And16(v[2], w[2])>>

\* The 32-bit product a * b of two numbers in 0..65535, as a word.  b is
\* taken a byte at a time so that no intermediate value passes 2^31.
Mul16(a, b) ==
    LET u == a * (b \div 256)
        t == (u % 256) * 256 + a * (b % 256)
    IN <<(u \div 256) + (t \div 65536), t % 65536>>

\* (v * w) & 0xffffffff
MulW(v, w) ==
    LET low == Mul16(v[2], w[2])
    IN <<(low[1] + Mul16(v[2], w[1])[2] + Mul16(v[1], w[2])[2]) % 65536,
         low[2]>>

\* (w + k) & 0xffffffff for a small k >= 0.
AddW(w, k) ==
    <<(w[1] + ((w[2] + k) \div 65536)) % 65536, (w[2] + k) % 65536>>

\* The state size N and the offset M of MT19937.
MtN == 624
MtM == 397

\* 1812433253, the multiplier of mt19937_seed.
SeedMultiplier == <<27655, 35173>>

\* 0x9908b0df, MATRIX_A of mt19937_gen.
MatrixA == <<39176, 45279>>

\* 0x9d2c5680 and 0xefc60000, the tempering masks.
TemperB == <<40236, 22144>>
TemperC == <<61382, 0>>

\* mt19937_seed, one step: from key[pos] to key[pos + 1],
\* 1812433253 * (seed ^ (seed >> 30)) + pos + 1.
NextKey(w, pos) ==
    AddW(MulW(SeedMultiplier, <<w[1], Xor16(w[2], w[1] \div 16384)>>), pos + 1)

\* mt19937_seed: the entries lo+1..hi of the key (1-based) appended to the
\* lo entries there already.  The range is halved rather than walked, and
\* the first half is looked at before the second starts, so that the
\* evaluation stays shallow; the entries and their order are the loop's.
RECURSIVE SeedFill(_, _, _)
SeedFill(key, lo, hi) ==
    IF lo >= hi THEN key
    ELSE IF hi = lo + 1 THEN Append(key, NextKey(key[lo], lo - 1))
    ELSE LET mid  == (lo + hi) \div 2
             half == SeedFill(key, lo, mid)
         IN IF Len(half) = mid THEN SeedFill(half, mid, hi) ELSE half

\* RandomState(rs) for a seed in range: the key filled from the seed, and
\* the position at the end of the key, so that the first draw regenerates.
Seeded(rs) ==
    [key |-> SeedFill(<<<<rs[1] % 65536, rs[2]>>>>, 1, MtN),
     pos |-> MtN]

\* mt19937_gen, the iteration for index i (0-based): mix is the top bit of
\* key[i] with the low 31 bits of key[i + 1]; key[i] becomes
\* key[i + M] ^ (mix >> 1) ^ (MATRIX_A if mix is odd), indices modulo N.
TwistStep(key, i) ==
    LET cur == key[i + 1]
        nxt == key[((i + 1) % MtN) + 1]
        far == key[((i + MtM) % MtN) + 1]
        mix == <<(cur[1] \div 32768) * 32768 + (nxt[1] % 32768), nxt[2]>>
        shr == <<mix[1] \div 2, (mix[1] % 2) * 32768 + (mix[2] \div 2)>>
        mag == IF mix[2] % 2 = 1 THEN MatrixA ELSE <<0, 0>>
    IN [key EXCEPT ![i + 1] = XorW(XorW(far, shr), mag)]

\* mt19937_gen: the iterations i = lo, ..., hi in that order (halved as
\* above).
RECURSIVE TwistRange(_, _, _)
TwistRange(key, lo, hi) ==
    IF lo > hi THEN key
    ELSE IF lo = hi THEN TwistStep(key, lo)
    ELSE LET mid  == (lo + hi) \div 2
             half == TwistRange(key, lo, mid)
         IN IF Len(half) = MtN THEN TwistRange(half, mid + 1, hi) ELSE half

\* mt19937_gen: the next N words.
Twist(key) == TwistRange(key, 0, MtN - 1)

\* The tempering of mt19937_next: y ^= y >> 11; y ^= (y << 7) & 0x9d2c5680;
\* y ^= (y << 15) & 0xefc60000; y ^= y >> 18.
Temper(w) ==
    LET y1 == XorW(w, <<w[1] \div 2048, (w[1] % 2048) * 32 + (w[2] \div 2048)>>)
        y2 == XorW(y1, AndW(<<(y1[1] % 512) * 128 + (y1[2] \div 512),
                              (y1[2] % 512) * 128>>, TemperB))
        y3 == XorW(y2, AndW(<<(y2[1] % 2) * 32768 + (y2[2] \div 2),
                              (y2[2] % 2) * 32768>>, TemperC))
    IN XorW(y3, <<0, y3[1] \div 4>>)

\* mt19937_next: the next 32-bit word and the generator after it.
Next32(g) ==
    LET key == IF g.pos = MtN THEN Twist(g.key) ELSE g.key
        pos == IF g.pos = MtN THEN 0 ELSE g.pos
    IN [value |-> Temper(key[pos + 1]), g |-> [key |-> key, pos |-> pos + 1]]

\* The mask of random_interval plus one: the least power of two above max.
RECURSIVE MaskPlusOne(_)
MaskPlusOne(max) == IF max = 0 THEN 1 ELSE 2 * MaskPlusOne(max \div 2)

\* word & mask, as a number, for the mask of a max below 2^30.
Masked(w, max) ==
    IF MaskPlusOne(max) <= 65536 THEN w[2] % MaskPlusOne(max)
    ELSE (w[1] % (MaskPlusOne(max) \div 65536)) * 65536 + w[2]

\* random_interval(max): 0 for max = 0; otherwise words are drawn and
\* masked until one is at most max.
RECURSIVE RandomInterval(_, _)
RandomInterval(g, max) ==
    IF max = 0 THEN [value |-> 0, g |-> g]
    ELSE LET d == Next32(g)
             v == Masked(d.value, max)
         IN IF v > max THEN RandomInterval(d.g, max)
            ELSE [value |-> v, g |-> d.g]

\* One iteration of RandomState.shuffle on a 1-d array: draw j in 0..i with
\* random_interval and swap elements i and j (0-based; the sequence is
\* 1-based).  The value is the array and the generator after the iteration.
ShuffleStep(st, i) ==
    LET d == RandomInterval(st.g, i)
        j == d.value
    IN [arr |-> [st.arr EXCEPT ![i + 1] = st.arr[j + 1],
                               ![j + 1] = st.arr[i + 1]],
        g   |-> d.g]

\* The iterations i = hi, hi-1, ..., lo of the shuffle, in that order
\* (halved as above).
RECURSIVE ShuffleRange(_, _, _)
ShuffleRange(st, hi, lo) ==
    IF hi < lo THEN st
    ELSE IF hi = lo THEN ShuffleStep(st, hi)
    ELSE LET mid  == (hi + lo) \div 2
             half == ShuffleRange(st, hi, mid + 1)
         IN IF half.g.pos >= 0 THEN ShuffleRange(half, mid, lo) ELSE half

\* RandomState.shuffle: for i in reversed(range(1, n)).
Shuffle(arr, g) == ShuffleRange([arr |-> arr, g |-> g], Len(arr) - 1, 1).arr

\* np.arange(n)
Arange(n) == [k \in 1..n |-> k - 1]

\* The permutations of the dataset's rows for the legal seeds tried, worked
\* out once: rng.permutation(569) after RandomState(rs).
DatasetPermutations ==
    [rs \in {r \in RandomStates : SeedInRange(r)} |->
        Shuffle(Arange(NSamples), Seeded(rs))]

\* rng.permutation(n_samples) after RandomState(rs): a shuffle of
\* arange(n_samples).  (Looked up when it has been worked out already.)
Permutation(rs, n) ==
    IF n = NSamples /\ rs \in DOMAIN DatasetPermutations
    THEN DatasetPermutations[rs]
    ELSE Shuffle(Arange(n), Seeded(rs))

\* ShuffleSplit._iter_indices: ind_test = permutation[:n_test].
IndTest(perm, ntest) == SubSeq(perm, 1, ntest)

\* Faulty variant: the training slice starts one index early.
IndTrainOverlap(perm, ntest, ntrain) == SubSeq(perm, ntest, ntest + ntrain - 1)

\* ShuffleSplit._iter_indices: ind_train = permutation[n_test:n_test+n_train].
IndTrain(perm, ntest, ntrain) == SubSeq(perm, ntest + 1, ntest + ntrain)

\* _safe_indexing(a, indices): the elements of a at the (0-based) indices.
SafeIndexing(a, ind) == [k \in 1..Len(ind) |-> a[ind[k] + 1]]

\* Faulty variant: random_state is not handed to the split, which shuffles
\* with the generator as earlier work has left it: one state before any file
\* has been written, another afterwards.
TrainTestSplitUnseeded(Xa, ya, ts, rs) ==
    LET n     == Len(Xa)
        perm  == DatasetPermutations[
                     IF newest = None THEN PyInt(42) ELSE PyInt(43)]
        ntest == Ceil(ts * n, Thousand)
        test  == SubSeq(perm, 1, ntest)
        train == SubSeq(perm, ntest + 1, n)
    IN [X_train |-> [k \in 1..Len(train) |-> Xa[train[k] + 1]],
        X_test  |-> [k \in 1..Len(test) |-> Xa[test[k] + 1]],
        y_train |-> [k \in 1..Len(train) |-> ya[train[k] + 1]],
        y_test  |-> [k \in 1..Len(test) |-> ya[test[k] + 1]]]

\* Faulty variant: the labels are cut at n_train without the shuffle the rows get.
TrainTestSplitLabelsInOrder(Xa, ya, ts, rs) ==
    LET n     == Len(Xa)
        perm  == Permutation(rs, n)
        ntest == Ceil(ts * n, Thousand)
        test  == SubSeq(perm, 1, ntest)
        train == SubSeq(perm, ntest + 1, n)
    IN [X_train |-> [k \in 1..Len(train) |-> Xa[train[k] + 1]],
        X_test  |-> [k \in 1..Len(test) |-> Xa[test[k] + 1]],
        y_train |-> SubSeq(ya, 1, n - ntest),
        y_test  |-> SubSeq(ya, n - ntest + 1, n)]

\* train_test_split(X, y, test_size, random_state) when it returns.
TrainTestSplit(Xa, ya, ts, rs) ==
    LET n     == Len(Xa)
        perm  == Permutation(rs, n)
        test  == IndTest(perm, NTest(ts, n))
        train == IndTrain(perm, NTest(ts, n), NTrain(ts, n))
    IN [X_train |-> SafeIndexing(Xa, train),
        X_test  |-> SafeIndexing(Xa, test),
        y_train |-> SafeIndexing(ya, train),
        y_test  |-> SafeIndexing(ya, test)]

\* ndarray.tolist() on the four arrays: the dict `data` of lines 16-21.
ToData(sp) ==
    [X_train |-> sp.X_train, y_train |-> sp.y_train,
     X_test  |-> sp.X_test,  y_test  |-> sp.y_test]

-----------------------------------------------------------------------------
(* The program.                                                            *)

Init ==
    /\ pc = "idle"
    /\ entry = None /\ output_path = None /\ test_size = 0 /\ random_state = PyInt(0)
    /\ X = <<>> /\ y = <<>> /\ split = None /\ data = None
    /\ output_file = None /\ opens = 0 /\ error = None
    /\ dirs = {"."}
    /\ files = [p \in Paths |-> Absent]
    /\ reported = FALSE
    /\ runs = 0
    /\ newest = None /\ newest0 = None
    /\ dirs0 = {"."}
    /\ files0 = [p \in Paths |-> Absent]
    /\ written_by = [p \in Paths |-> NoArgs]
    /\ written_by0 = [p \in Paths |-> NoArgs]

Terminal == pc \in {"done", "failed"}

\* A run begins: through main() with parsed arguments, or by a direct call
\* of download_data().
Begin(e, p, ts, rs) ==
    /\ pc = "idle"
    /\ entry' = e /\ output_path' = p /\ test_size' = ts /\ random_state' = rs
    /\ pc' = IF e = "main" THEN "mkdir" ELSE "load"
    /\ UNCHANGED <<locals, output_file, opens, error, reported, dirs, files,
                   newest, history, written_by>>

\* One of at most MaxRuns runs, on any of the inputs.
Start(e, p, ts, rs) ==
    /\ runs < MaxRuns
    /\ runs' = runs + 1
    /\ Begin(e, p, ts, rs)

\* One of any number of runs (they are not counted).
StartAgain(e, p, ts, rs) ==
    /\ UNCHANGED runs
    /\ Begin(e, p, ts, rs)

\* The run is over (the process has exited, or the call has returned or
\* raised): its arguments, locals and handle are gone, the file system stays.
Exit ==
    /\ Terminal
    /\ pc' = "idle"
    /\ entry' = None /\ output_path' = None /\ test_size' = 0
    /\ random_state' = PyInt(0)
    /\ X' = <<>> /\ y' = <<>> /\ split' = None /\ data' = None
    /\ output_file' = None /\ opens' = 0 /\ error' = None
    /\ reported' = FALSE
    /\ dirs0' = dirs /\ files0' = files /\ written_by0' = written_by
    /\ newest0' = newest
    /\ UNCHANGED <<dirs, files, newest, runs, written_by>>

\* Faulty variant: the directory is not created.
MkdirSkipped(d, existing) == existing

\* Path.mkdir(parents=True, exist_ok=True) on directory d: the directories
\* that exist afterwards (the parent of "out" is the working directory).
MkdirParents(d, existing) == existing \cup {d}

\* main, line 36: Path(args.data).parent.mkdir(parents=True, exist_ok=True).
Mkdir ==
    /\ pc = "mkdir"
    /\ dirs' = MkdirParents(Parent(output_path), dirs)
    /\ pc' = "load"
    /\ UNCHANGED <<args, locals, output_file, opens, error, files, reported,
                   newest, runs, history, written_by>>

\* download_data, line 10: the dataset is loaded.
LoadData ==
    /\ pc = "load"
    /\ X' = LoadX /\ y' = LoadY
    /\ pc' = "split"
    /\ UNCHANGED <<args, split, data, output_file, opens, error, dirs, files,
                   reported, newest, runs, history, written_by>>

\* download_data, line 10: the dataset cannot be read; the error propagates.
LoadDataFails ==
    /\ pc = "load"
    /\ error' = "OSError"
    /\ pc' = "failed"
    /\ UNCHANGED <<args, locals, output_file, opens, dirs, files, reported,
                   newest, runs, history, written_by>>

\* download_data, line 13: the split, or the ValueError it raises.
Split ==
    /\ pc = "split"
    /\ IF SplitAccepts(test_size, random_state, Len(X))
       THEN /\ split' = TrainTestSplit(X, y, test_size, random_state)
            /\ pc' = "build"
            /\ UNCHANGED error
       ELSE /\ error' = "ValueError"
            /\ pc' = "failed"
            /\ UNCHANGED split
    /\ UNCHANGED <<args, X, y, data, output_file, opens, dirs, files,
                   reported, newest, runs, history, written_by>>

\* download_data, lines 16-21: the dict to save.
BuildData ==
    /\ pc = "build"
    /\ data' = ToData(split)
    /\ pc' = "open"
    /\ UNCHANGED <<args, X, y, split, output_file, opens, error, dirs, files,
                   reported, newest, runs, history, written_by>>

\* open(output_path, 'w'): what the file holds once it is open.
OpenedContent(old) == <<>>

\* download_data, line 24: open(output_path, 'w') creates or truncates the
\* file; it raises FileNotFoundError when the parent directory is missing.
Open ==
    /\ pc = "open"
    /\ IF Parent(output_path) \in dirs
       THEN /\ files' = [files EXCEPT
                           ![output_path] = OpenedContent(files[output_path])]
            /\ written_by' = [written_by EXCEPT
                           ![output_path] = <<test_size, random_state>>]
            /\ newest' = output_path
            /\ output_file' = "open"
            /\ opens' = opens + 1
            /\ pc' = "dump"
            /\ UNCHANGED error
       ELSE /\ error' = "FileNotFoundError"
            /\ pc' = "failed"
            /\ UNCHANGED <<files, written_by, newest, output_file, opens>>
    /\ UNCHANGED <<args, locals, dirs, reported, runs, history>>

\* The next member json.dump writes after k members.
Chunk(d, k) == <<DumpOrder[k + 1], d[DumpOrder[k + 1]]>>

\* download_data, line 25: json.dump writes the next member.
Dump ==
    /\ pc = "dump"
    /\ Len(files[output_path]) < Len(DumpOrder)
    /\ files' = [files EXCEPT ![output_path] =
                    Append(@, Chunk(data, Len(files[output_path])))]
    /\ UNCHANGED <<pc, args, locals, output_file, opens, error, dirs,
                   reported, newest, runs, history, written_by>>

\* Faulty variant: the handle is left as it is.
ReleasedNever(h) == h

\* What leaving the with block does to the handle.
Released(h) == "closed"

\* download_data, line 25: a write fails (the device is full, say); the
\* with statement closes the handle and the error propagates.
DumpFails ==
    /\ pc = "dump"
    /\ Len(files[output_path]) < Len(DumpOrder)
    /\ error' = "OSError"
    /\ output_file' = Released(output_file)
    /\ pc' = "failed"
    /\ UNCHANGED <<args, locals, opens, dirs, files, reported, newest, runs,
                   history, written_by>>

\* download_data, lines 24-25: json.dump has returned, the with block ends
\* and closes the file; download_data returns.
Close ==
    /\ pc = "dump"
    /\ Len(files[output_path]) = Len(DumpOrder)
    /\ output_file' = Released(output_file)
    /\ pc' = "return"
    /\ UNCHANGED <<args, locals, opens, error, dirs, files, reported, newest,
                   runs, history, written_by>>

\* main, line 40, after download_data returned: the success message.  A
\* direct call just returns.
Return ==
    /\ pc = "return"
    /\ reported' = (entry = "main")
    /\ pc' = "done"
    /\ UNCHANGED <<args, locals, output_file, opens, error, dirs, files,
                   newest, runs, history, written_by>>

Next ==
    \/ \E e \in {"main", "direct"}, p \in Paths, ts \in TestSizes,
          rs \in RandomStates : Start(e, p, ts, rs)
    \/ Exit
    \/ Mkdir
    \/ LoadData
    \/ LoadDataFails
    \/ Split
    \/ BuildData
    \/ Open
    \/ Dump
    \/ DumpFails
    \/ Close
    \/ Return

\* Every input, in each of at most MaxRuns runs.
Spec == Init /\ [][Next]_vars

\* Any number of runs, one after the other, on the inputs of RepeatedArgs.
NextRepeated ==
    \/ \E e \in {"main", "direct"}, p \in Paths, a \in RepeatedArgs :
          StartAgain(e, p, a[1], a[2])
    \/ Exit
    \/ Mkdir
    \/ LoadData
    \/ LoadDataFails
    \/ Split
    \/ BuildData
    \/ Open
    \/ Dump
    \/ DumpFails
    \/ Close
    \/ Return

SpecRepeated == Init /\ [][NextRepeated]_vars

-----------------------------------------------------------------------------
(* Vocabulary of the properties.                                           *)

\* A complete document: all four members have been written.
IsDocument(c) == c # Absent /\ Len(c) = Len(DumpOrder)

\* The arrays of a complete document.
XTrainOf(c) == c[1][2]
YTrainOf(c) == c[2][2]
XTestOf(c) == c[3][2]
YTestOf(c) == c[4][2]

\* The document has the four keys, in the order json.dump writes them.
HasFourKeys(c) == \A k \in 1..Len(DumpOrder) : c[k][1] = DumpOrder[k]

Range(q) == {q[k] : k \in 1..Len(q)}

\* The split has returned and the run has gone on past line 13.
PastSplit == pc \in {"build", "open", "dump", "return", "done"}

\* Python's round(a / b) for a >= 0, b > 0: to the nearest integer, a tie
\* to the even one.
Round(a, b) ==
    LET q == a \div b
        r == a % b
    IN IF 2 * r < b THEN q
       ELSE IF 2 * r > b THEN q + 1
       ELSE IF q % 2 = 0 THEN q ELSE q + 1

\* The arguments of the current run.
Args == <<test_size, random_state>>

-----------------------------------------------------------------------------
(* C1 *)

\* The arguments for which the split returns: test_size strictly between 0
\* and 1 with ceil(test_size * N) < N, and a seed in 0..2^32-1.
C1_SplitReturns ==
    /\ test_size > 0 /\ test_size < Thousand
    /\ Ceil(test_size * NSamples, Thousand) < NSamples
    /\ random_state[1] >= 0 /\ random_state[1] <= 65535

\* Every number of thousandths strictly between 0 and 1, 0.001 included:
\* the test set has at least one row, the two sizes add up to N, and the
\* split is accepted exactly when a training row is left.
C1_TestSetNeverEmpty ==
    \A ts \in 1..(Thousand - 1) :
        /\ NTest(ts, NSamples) >= 1
        /\ NTest(ts, NSamples) + NTrain(ts, NSamples) = NSamples
        /\ SplitAccepts(ts, PyInt(42), NSamples)
              <=> Ceil(ts * NSamples, Thousand) < NSamples

\* C1 as claimed: for every test_size strictly between 0 and 1 and every
\* random_state the split does not fail, fractions close to 1 included, and
\* the arrays written have matching lengths that add up to N.
C1_EveryFractionSplits ==
    /\ (pc = "failed" /\ test_size > 0 /\ test_size < Thousand)
          => error # "ValueError"
    /\ pc = "done" =>
          /\ Len(XTrainOf(files[output_path]))
               + Len(XTestOf(files[output_path])) = NSamples
          /\ Len(YTrainOf(files[output_path]))
               = Len(XTrainOf(files[output_path]))
          /\ Len(YTestOf(files[output_path]))
               = Len(XTestOf(files[output_path]))

\* C1 amended: the split returns exactly for test_size strictly between 0
\* and 1 with ceil(test_size * N) < N and a random_state in 0..2^32-1;
\* otherwise it raises ValueError and the file system is as the run found
\* it after main's mkdir.  A run that completes has written four arrays
\* with len(X_train) + len(X_test) = N, len(y_train) = len(X_train),
\* len(y_test) = len(X_test), neither subset empty; and the test set is not
\* empty for any fraction, however close to 0.
C1_Lengths ==
    /\ C1_TestSetNeverEmpty
    /\ PastSplit => C1_SplitReturns
    /\ (pc = "failed" /\ error = "ValueError") =>
          /\ ~C1_SplitReturns
          /\ files = files0
    /\ pc = "done" =>
          /\ IsDocument(files[output_path])
          /\ HasFourKeys(files[output_path])
          /\ Len(XTrainOf(files[output_path]))
               + Len(XTestOf(files[output_path])) = NSamples
          /\ Len(YTrainOf(files[output_path]))
               = Len(XTrainOf(files[output_path]))
          /\ Len(YTestOf(files[output_path]))
               = Len(XTestOf(files[output_path]))
          /\ Len(XTrainOf(files[output_path])) > 0
          /\ Len(XTestOf(files[output_path])) > 0

\* The spec's scenario: test_size 0.2 on the 569 rows gives 114 test rows
\* and 455 training rows in the written document.
C1_Witness ==
    /\ pc = "done"
    /\ test_size = 200
    /\ Len(XTestOf(files[output_path])) = 114
    /\ Len(YTestOf(files[output_path])) = 114
    /\ Len(XTrainOf(files[output_path])) = 455

-----------------------------------------------------------------------------
(* C2 *)

\* C2: in the document of a run that completed, the rows under X_train and
\* the rows under X_test are disjoint, together they are the rows 0..N-1,
\* and no row is written twice.
C2_Partition ==
    pc = "done" =>
        LET tr == XTrainOf(files[output_path])
            te == XTestOf(files[output_path])
        IN /\ Range(tr) \cap Range(te) = {}
           /\ Range(tr) \cup Range(te) = 0..(NSamples - 1)
           /\ Cardinality(Range(tr)) = Len(tr)
           /\ Cardinality(Range(te)) = Len(te)
           /\ Len(tr) + Len(te) = NSamples

\* A run with test_size 0.25 completed: both subsets hold rows.
C2_Witness ==
    /\ pc = "done"
    /\ test_size = 250
    /\ Len(XTrainOf(files[output_path])) > 1
    /\ Len(XTestOf(files[output_path])) > 1

-----------------------------------------------------------------------------
(* C3 *)

\* C3 as claimed: the test set is the first round(test_size * N) indices of
\* the seeded permutation and the training set the rest.
C3_RoundedTestSize ==
    pc = "done" =>
        LET perm == Permutation(random_state, NSamples)
            k    == Round(test_size * NSamples, Thousand)
        IN /\ XTestOf(files[output_path]) = SubSeq(perm, 1, k)
           /\ XTrainOf(files[output_path]) = SubSeq(perm, k + 1, NSamples)

\* C3 amended: the test set is the first ceil(test_size * N) indices of the
\* seeded permutation and the training set the remaining
\* N - ceil(test_size * N).
C3_CeilTestSize ==
    pc = "done" =>
        LET perm == Permutation(random_state, NSamples)
            k    == Ceil(test_size * NSamples, Thousand)
        IN /\ XTestOf(files[output_path]) = SubSeq(perm, 1, k)
           /\ XTrainOf(files[output_path]) = SubSeq(perm, k + 1, NSamples)

\* test_size 0.25: 0.25 * 569 = 142.25, and the test set has 143 rows.
C3_Witness ==
    /\ pc = "done"
    /\ test_size = 250
    /\ Round(test_size * NSamples, Thousand) = 142
    /\ Len(XTestOf(files[output_path])) = 143
    /\ Len(XTrainOf(files[output_path])) = 426

-----------------------------------------------------------------------------
(* C4 *)

\* C4 as claimed: a run through main with test_size outside (0,1) fails
\* with the split's error before any file-system operation: when the error
\* is raised neither the file nor its parent directory has been touched.
C4_NothingTouched ==
    (entry = "main" /\ ~(test_size > 0 /\ test_size < Thousand)) =>
        /\ ~PastSplit
        /\ (pc = "failed" /\ error = "ValueError") =>
              /\ dirs = dirs0
              /\ files = files0
              /\ opens = 0

\* C4 amended: a run with test_size outside (0,1) never gets past the
\* split; it ends with the split's ValueError (or an earlier failure to
\* load the dataset) and never opens, creates or modifies a file.  Through
\* main the parent directory of the output path has been created by then if
\* it was missing; a direct call leaves the directories alone.
C4_FileUntouched ==
    (pc # "idle" /\ ~(test_size > 0 /\ test_size < Thousand)) =>
        /\ ~PastSplit
        /\ files = files0
        /\ opens = 0
        /\ output_file = None
        /\ pc = "failed" => error \in {"ValueError", "OSError"}
        /\ (entry = "main" /\ pc # "mkdir") =>
              dirs = dirs0 \cup {Parent(output_path)}
        /\ entry = "direct" => dirs = dirs0

\* main was given test_size 1.5 and a path in a missing directory: the run
\* has failed with ValueError, and the directory is there.
C4_Witness ==
    /\ entry = "main"
    /\ test_size = 1500
    /\ pc = "failed"
    /\ error = "ValueError"
    /\ "out" \in dirs
    /\ "out" \notin dirs0
    /\ files = files0

-----------------------------------------------------------------------------
(* C5 *)

\* C5: after a run that failed, the file at every path is absent, as the
\* run found it, or a complete document with the four keys.
C5_NoTruncatedFile ==
    pc = "failed" =>
        \A p \in Paths :
            \/ files[p] = Absent
            \/ files[p] = files0[p]
            \/ IsDocument(files[p]) /\ HasFourKeys(files[p])

-----------------------------------------------------------------------------
(* C6 *)

\* C6: the document written depends on (test_size, random_state) only: two
\* complete files written by runs with the same arguments are equal, and a
\* run that completes has written what an earlier run with the same
\* arguments wrote, whichever path that run wrote to, however many runs
\* (completed or failed, with whatever arguments) came in between and
\* whatever the file held before: nothing, the document of other
\* arguments, or what a failed run left.
C6_Deterministic ==
    /\ \A p, q \in Paths :
          (/\ IsDocument(files[p])
           /\ IsDocument(files[q])
           /\ written_by[p] = written_by[q]) => files[p] = files[q]
    /\ pc = "done" =>
          \A p \in Paths :
              (IsDocument(files0[p]) /\ written_by0[p] = Args)
                  => files[output_path] = files0[p]

\* Three runs, in this order: one wrote a document to a path; then a run
\* with other arguments wrote its document to the other path (that file is
\* the newer of the two); then a run with the arguments of the first has
\* overwritten the document of the second, and both documents are there.
C6_Witness ==
    /\ pc = "done"
    /\ IsDocument(files[output_path])
    /\ newest0 = output_path
    /\ IsDocument(files0[output_path])
    /\ written_by0[output_path] # Args
    /\ files0[output_path] # files[output_path]
    /\ \E p \in Paths :
          /\ p # output_path
          /\ IsDocument(files[p])
          /\ written_by[p] = Args

-----------------------------------------------------------------------------
(* C7 *)

\* C7 as claimed: whichever way the operation is entered, the parent
\* directory exists by the time the file is opened, so the open never fails
\* for a missing directory.
C7_DirectoryAlwaysCreated ==
    /\ pc \in {"open", "dump", "return", "done"}
          => Parent(output_path) \in dirs
    /\ error # "FileNotFoundError"

\* C7 amended: through main, a missing parent directory is created before
\* download_data is entered, so it exists when the file is opened and the
\* file is written in full unless a write fails.  A direct call of
\* download_data creates no directory: when the parent is missing, open
\* raises FileNotFoundError and the file system is left as it was.
C7_MainCreatesDirectory ==
    /\ (entry = "main" /\ pc # "mkdir") => Parent(output_path) \in dirs
    /\ output_file = "open" => Parent(output_path) \in dirs
    /\ pc = "done" =>
          /\ Parent(output_path) \in dirs
          /\ IsDocument(files[output_path])
    /\ entry = "direct" => dirs = dirs0
    /\ error = "FileNotFoundError" =>
          /\ entry = "direct"
          /\ pc = "failed"
          /\ Parent(output_path) \notin dirs0
          /\ files = files0
          /\ opens = 0

\* main was given a path in a directory that did not exist: the directory
\* is there and the document is written.
C7_Witness ==
    /\ entry = "main"
    /\ pc = "done"
    /\ output_path = "out/data.json"
    /\ "out" \notin dirs0
    /\ "out" \in dirs
    /\ files0[output_path] = Absent
    /\ IsDocument(files[output_path])

-----------------------------------------------------------------------------
(* C8 *)

\* C8: the handle is open only while json.dump runs; when the run is over,
\* by return or by an error, a handle that was opened is closed; a run
\* opens the file at most once.
C8_HandleReleased ==
    /\ output_file = "open" => pc = "dump"
    /\ (Terminal \/ pc = "return") => output_file # "open"
    /\ (Terminal /\ opens > 0) => output_file = "closed"
    /\ opens <= 1
    /\ opens = 0 => output_file = None

\* A write failed part-way through json.dump: the run is over with the error
\* and the handle it had opened is closed.
C8_Witness ==
    /\ pc = "failed"
    /\ error = "OSError"
    /\ opens = 1
    /\ output_file = "closed"
    /\ Len(files[output_path]) > 0

-----------------------------------------------------------------------------
(* C9 *)

\* C9: a run changes nothing but the file at its output path: the
\* directories and the other files stay as the run found them.  Each output
\* file holds the document of the last successful run that targeted it: a
\* run that completes leaves its own complete document there and nothing
\* else, and a run that fails leaves there what the file held before.
C9_OnlyTheOutputFile ==
    pc # "idle" =>
        /\ dirs = dirs0
        /\ \A p \in Paths \ {output_path} : files[p] = files0[p]
        /\ pc = "done" =>
              /\ IsDocument(files[output_path])
              /\ HasFourKeys(files[output_path])
              /\ written_by[output_path] = Args
              /\ XTrainOf(files[output_path]) = data.X_train
              /\ YTrainOf(files[output_path]) = data.y_train
              /\ XTestOf(files[output_path]) = data.X_test
              /\ YTestOf(files[output_path]) = data.y_test
        /\ pc = "failed" => files[output_path] = files0[output_path]

-----------------------------------------------------------------------------
(* C10 *)

\* C10: features and labels stay paired, y_train[i] is the label of the row
\* at X_train[i] and y_test[i] that of the row at X_test[i], and the rows
\* are written in the order of the permutation: X_test followed by X_train
\* is the seeded permutation of the rows.
C10_Paired ==
    pc = "done" =>
        LET c == files[output_path]
        IN /\ \A i \in 1..Len(XTrainOf(c)) :
                 YTrainOf(c)[i] = LoadY[XTrainOf(c)[i] + 1]
           /\ \A i \in 1..Len(XTestOf(c)) :
                 YTestOf(c)[i] = LoadY[XTestOf(c)[i] + 1]
           /\ XTestOf(c) \o XTrainOf(c)
                 = Permutation(random_state, NSamples)

\* A completed run whose training rows are not in dataset order and whose
\* training labels are not the first labels of the dataset.
C10_Witness ==
    /\ pc = "done"
    /\ \E i \in 1..(Len(XTrainOf(files[output_path])) - 1) :
          XTrainOf(files[output_path])[i]
              > XTrainOf(files[output_path])[i + 1]
    /\ YTrainOf(files[output_path])
          # SubSeq(LoadY, 1, Len(YTrainOf(files[output_path])))

====
